---- MODULE Spec2Model ----
(***************************************************************************)
(* Model of src/main.py: the Arch Linux installer.  Partitioning computes  *)
(* the partition layout, InstallerTextWizard collects the configuration    *)
(* by prompts, Installer runs the installation steps.  Texts are tuples of *)
(* one-character strings; Python values that may be of several types are   *)
(* tagged records (PyStr, PyInt, PyBool, PyNone).                          *)
(***************************************************************************)
EXTENDS Integers, Sequences, FiniteSets, TLC

VARIABLES
  pc,            \* where the program stands: the prompt it waits at, or the install step
  value,         \* the line the last input() read
  msg,           \* the notice or error the last step printed
  items,         \* choose(): the pool offered at the current prompt
  itemsIsList,   \* choose(): items is a list (FALSE: a set, as available_timezones())
  searches,      \* choose(): nested choose calls made by successful searches
  origItems,     \* choose(): the items the outermost call was given
  queries,       \* history: the queries of the searches that matched, in this selection
  depth,         \* nested collect/review calls made by rejected reviews
  entered,       \* history: the values the prompts returned in the current round
  hostname, timezone, users, username, password,   \* locals of collect_general / collect_user
  device, root_size,                               \* locals of collect_partitioning
  general,       \* the General object, <<>> before it exists
  partitioning,  \* the Partitioning object, <<>> before it exists
  cmds,          \* disk- and system-changing commands and file writes issued so far
  failures,      \* history: the positions in cmds of the commands that failed
  reported,      \* history: the scripts download_and_run_scripts reported as failed
  post_install,  \* the PostInstall object, <<>> before it exists
  serialized,    \* the dict serialize() returned, <<>> before the call
  restored       \* the Installer deserialize() built, <<>> before the call

vars == <<pc, value, msg, items, itemsIsList, searches, origItems, queries,
          depth, entered, hostname, timezone, users, username, password,
          device, root_size, general, partitioning, cmds, failures, reported,
          post_install, serialized, restored>>

(* ----------------------------- bounds ---------------------------------- *)
MaxUsers == 2
MaxDepth == 2
MaxSearches == 2
MaxDiskUnits == 6
MaxRootUnits == 6
MaxLen == 3
MaxScripts == 2
MaxPackages == 2

(* --------------------------- Python values ----------------------------- *)
PyStr(s) == [t |-> "str", s |-> s, b |-> FALSE, n |-> 0]
PyInt(n) == [t |-> "int", s |-> <<>>, b |-> FALSE, n |-> n]
PyBool(b) == [t |-> "bool", s |-> <<>>, b |-> b, n |-> 0]
PyNone == [t |-> "none", s |-> <<>>, b |-> FALSE, n |-> 0]

\* bool(v)
Truthy(v) ==
  CASE v.t = "str" -> Len(v.s) > 0
    [] v.t = "int" -> v.n # 0
    [] v.t = "bool" -> v.b
    [] OTHER -> FALSE

\* the number a bool or an int stands for in arithmetic and comparisons
PyNum(v) == IF v.t = "bool" THEN (IF v.b THEN 1 ELSE 0) ELSE v.n

(* ------------------------------ texts ---------------------------------- *)
UpperLetters == <<"A","B","C","D","E","F","G","H","I","J","K","L","M",
                  "N","O","P","Q","R","S","T","U","V","W","X","Y","Z">>
LowerLetters == <<"a","b","c","d","e","f","g","h","i","j","k","l","m",
                  "n","o","p","q","r","s","t","u","v","w","x","y","z">>
Digits == <<"0","1","2","3","4","5","6","7","8","9">>
Whitespace == {" ", "\t"}

Range(f) == {f[i] : i \in DOMAIN f}
UpperSet == Range(UpperLetters)
LowerSet == Range(LowerLetters)
DigitSet == Range(Digits)
IsDigit(c) == c \in DigitSet
IsLetter(c) == c \in UpperSet \cup LowerSet
DigitVal(c) == (CHOOSE i \in DOMAIN Digits : Digits[i] = c) - 1

LowerChar(c) ==
  IF c \in UpperSet
  THEN LowerLetters[CHOOSE i \in DOMAIN UpperLetters : UpperLetters[i] = c]
  ELSE c
UpperChar(c) ==
  IF c \in LowerSet
  THEN UpperLetters[CHOOSE i \in DOMAIN LowerLetters : LowerLetters[i] = c]
  ELSE c
\* str.lower(), str.upper()
Lower(s) == [i \in DOMAIN s |-> LowerChar(s[i])]
Upper(s) == [i \in DOMAIN s |-> UpperChar(s[i])]

RECURSIVE LStrip(_)
LStrip(s) == IF Len(s) > 0 /\ s[1] \in Whitespace THEN LStrip(Tail(s)) ELSE s
RECURSIVE RStrip(_)
RStrip(s) ==
  IF Len(s) > 0 /\ s[Len(s)] \in Whitespace
  THEN RStrip(SubSeq(s, 1, Len(s) - 1)) ELSE s
\* str.strip()
Strip(s) == RStrip(LStrip(s))

\* str.startswith(p)
StartsWith(s, p) == Len(s) >= Len(p) /\ SubSeq(s, 1, Len(p)) = p
\* q in s
Contains(s, q) ==
  \E i \in 1..(Len(s) - Len(q) + 1) : SubSeq(s, i, i + Len(q) - 1) = q
\* str.isalnum(): false for the empty text
IsAlnum(s) == Len(s) > 0 /\ \A i \in DOMAIN s : IsLetter(s[i]) \/ IsDigit(s[i])

\* number of digits at the front of s
RECURSIVE DigitRun(_)
DigitRun(s) == IF Len(s) > 0 /\ IsDigit(s[1]) THEN 1 + DigitRun(Tail(s)) ELSE 0
\* the number written by a text of digits
RECURSIVE DigitsValue(_)
DigitsValue(s) ==
  IF Len(s) = 0 THEN 0
  ELSE 10 * DigitsValue(SubSeq(s, 1, Len(s) - 1)) + DigitVal(s[Len(s)])
RECURSIVE Pow10(_)
Pow10(k) == IF k = 0 THEN 1 ELSE 10 * Pow10(k - 1)
Drop(s, k) == SubSeq(s, k + 1, Len(s))

(* --------------------------- class Partitioning ------------------------ *)
BOOT_SIZE == 512
SWAP_SIZE == 1024

\* has_separate_home_partition with >= for >
HasSeparateHome_NonNegative(root) == PyNum(root) >= 0

\* has_separate_home_partition
HasSeparateHome(root) == PyNum(root) > 0

\* mutant: the root size is not taken off the remaining size
RemainingSize_NoRootSubtracted(total, root) == total - (BOOT_SIZE + SWAP_SIZE)

\* remaining_size as __init__ leaves it
RemainingSize(total, root) ==
  LET budget == total - (BOOT_SIZE + SWAP_SIZE)
  IN IF HasSeparateHome(root) THEN budget - PyNum(root) ELSE budget

\* Partitioning(device, root_partition_size), the disk size query answering total
NewPartitioning(dev, root, total) ==
  [device |-> dev, root_partition_size |-> root,
   total_disk_size |-> total, remaining_size |-> RemainingSize(total, root)]

\* the test that makes apply() raise ValueError
SizingError(p) ==
  Truthy(p.root_partition_size) /\ PyNum(p.root_partition_size) >= p.remaining_size

\* mutant: the root partition always gets the requested root size
RootAndHomeSize_AlwaysRequested(p) == PyNum(p.root_partition_size)

\* root_and_home_size in apply()
RootAndHomeSize(p) ==
  IF ~HasSeparateHome(p.root_partition_size)
  THEN p.remaining_size ELSE PyNum(p.root_partition_size)

\* home_size in apply(), computed only with a separate home
HomeSize(p) == p.remaining_size - PyNum(p.root_partition_size)

\* one external command: op on target (a device or a partition)
Cmd(op, target, arg, start, size) ==
  [op |-> op, target |-> target, arg |-> arg, start |-> start, size |-> size]
PartName(dev, k) == dev \o <<"p", Digits[k + 1]>>

\* create_partition(fstype, start, size)
CreatePartition(dev, fstype, start, size) == Cmd("mkpart", dev, fstype, start, size)

\* format_partition(partition, fstype)
FormatPartition(part, fstype) ==
  CASE fstype = "fat32" -> <<Cmd("mkfs.fat", part, fstype, 0, 0)>>
    [] fstype = "swap" -> <<Cmd("mkswap", part, fstype, 0, 0)>>
    [] fstype = "ext4" -> <<Cmd("mkfs.ext4", part, fstype, 0, 0)>>
    [] OTHER -> <<>>

\* the commands of create_partitions(root_size, home_size), in order;
\* withHome: home_size is not None
CreatePartitions(dev, root_size_, withHome, home_size) ==
  <<Cmd("mklabel", dev, "gpt", 0, 0),
    CreatePartition(dev, "fat32", 0, BOOT_SIZE),
    CreatePartition(dev, "linux-swap", BOOT_SIZE, SWAP_SIZE),
    CreatePartition(dev, "ext4", BOOT_SIZE + SWAP_SIZE, root_size_)>>
  \o (IF withHome
      THEN <<CreatePartition(dev, "ext4", BOOT_SIZE + SWAP_SIZE + root_size_, home_size)>>
      ELSE <<>>)
  \o FormatPartition(PartName(dev, 1), "fat32")
  \o FormatPartition(PartName(dev, 2), "swap")
  \o FormatPartition(PartName(dev, 3), "ext4")
  \o (IF withHome /\ home_size # 0
      THEN FormatPartition(PartName(dev, 4), "ext4") ELSE <<>>)

\* the commands of apply() once the size test has passed
ApplyCmds(p) ==
  CreatePartitions(p.device, RootAndHomeSize(p),
                   HasSeparateHome(p.root_partition_size),
                   IF HasSeparateHome(p.root_partition_size) THEN HomeSize(p) ELSE 0)

\* mount() mounting in the order boot, swap, root, home
MountCmds_RoleOrder(p) ==
  <<Cmd("mkdir", <<>>, "/mnt/boot", 0, 0),
    Cmd("mount", PartName(p.device, 1), "/mnt/boot", 0, 0),
    Cmd("swapon", PartName(p.device, 2), "", 0, 0),
    Cmd("mount", PartName(p.device, 3), "/mnt", 0, 0)>>
  \o (IF HasSeparateHome(p.root_partition_size)
      THEN <<Cmd("mkdir", <<>>, "/mnt/home", 0, 0),
             Cmd("mount", PartName(p.device, 4), "/mnt/home", 0, 0)>>
      ELSE <<>>)

\* the commands of mount(), in order
MountCmds(p) ==
  <<Cmd("mount", PartName(p.device, 3), "/mnt", 0, 0)>>
  \o (IF HasSeparateHome(p.root_partition_size)
      THEN <<Cmd("mkdir", <<>>, "/mnt/home", 0, 0),
             Cmd("mount", PartName(p.device, 4), "/mnt/home", 0, 0)>>
      ELSE <<>>)
  \o <<Cmd("mkdir", <<>>, "/mnt/boot", 0, 0),
       Cmd("mount", PartName(p.device, 1), "/mnt/boot", 0, 0),
       Cmd("swapon", PartName(p.device, 2), "", 0, 0)>>

\* subprocess.run(..., check=True) over a list of commands: the first k
\* succeed; with k < Len(list) command k+1 is issued, fails and raises
RunChecked(list, next) ==
  \E k \in 0..Len(list) :
    IF k = Len(list)
    THEN /\ cmds' = cmds \o list
         /\ failures' = failures
         /\ pc' = next
         /\ msg' = ""
    ELSE /\ cmds' = cmds \o SubSeq(list, 1, k + 1)
         /\ failures' = failures \cup {Len(cmds) + k + 1}
         /\ pc' = "failed"
         /\ msg' = "CalledProcessError"

chooseHist == <<origItems, queries>>
wizardVars == <<value, items, itemsIsList, searches, chooseHist, depth, entered,
                hostname, timezone, users, username, password, device, root_size>>
\* the objects and histories the steps of Partitioning leave alone
objectVars == <<general, partitioning, reported, post_install, serialized, restored>>

\* apply() writing the partition table before it tests the sizes
Apply_LabelFirst ==
  /\ pc = "apply"
  /\ IF SizingError(partitioning[1])
     THEN /\ pc' = "failed"
          /\ msg' = "ValueError: Root partition size is too large"
          /\ cmds' = cmds \o <<Cmd("mklabel", partitioning[1].device, "gpt", 0, 0)>>
          /\ failures' = failures
     ELSE RunChecked(ApplyCmds(partitioning[1]), "mount")
  /\ UNCHANGED <<wizardVars, objectVars>>

\* Partitioning.apply(), the first step of Installer.install()
Apply ==
  /\ pc = "apply"
  /\ IF SizingError(partitioning[1])
     THEN /\ pc' = "failed"
          /\ msg' = "ValueError: Root partition size is too large"
          /\ cmds' = cmds
          /\ failures' = failures
     ELSE RunChecked(ApplyCmds(partitioning[1]), "mount")
  /\ UNCHANGED <<wizardVars, objectVars>>

\* Partitioning.mount(), the second step of Installer.install()
Mount ==
  /\ pc = "mount"
  /\ RunChecked(MountCmds(partitioning[1]), "pacstrap")
  /\ UNCHANGED <<wizardVars, objectVars>>

(* ---------------- the planner on its own, on bounded inputs ------------ *)
DevSda == <<"/","d","e","v","/","s","d","a">>
PlannerDisks == {k * 512 : k \in 1..MaxDiskUnits} \cup {12288, 20480, 40960}
PlannerRoots == {k * 256 : k \in 0..MaxRootUnits} \cup {10240, 15000}

WizardIdle ==
  /\ value = <<>> /\ items = <<>> /\ itemsIsList = TRUE /\ depth = 0
  /\ searches = 0 /\ entered = <<>>
  /\ origItems = <<>> /\ queries = {}
  /\ hostname = PyNone /\ timezone = PyNone /\ users = <<>>
  /\ username = PyNone /\ password = PyNone
  /\ device = <<>> /\ root_size = PyNone

\* nothing issued, nothing serialized
NothingDone ==
  /\ cmds = <<>> /\ failures = {} /\ reported = <<>>
  /\ serialized = <<>> /\ restored = <<>>

InitPlanner ==
  /\ WizardIdle
  /\ pc = "apply"
  /\ msg = ""
  /\ general = <<>>
  /\ post_install = <<>>
  /\ NothingDone
  /\ \E total \in PlannerDisks, root \in PlannerRoots :
       partitioning = <<NewPartitioning(DevSda, PyInt(root), total)>>

NextPlanner == Apply \/ Mount
SpecPlanner == InitPlanner /\ [][NextPlanner]_vars

\* the create_partition calls issued so far, in order
Parts == SelectSeq(cmds, LAMBDA c : c.op = "mkpart")
RECURSIVE SumSizes(_)
SumSizes(ps) == IF Len(ps) = 0 THEN 0 ELSE Head(ps).size + SumSizes(Tail(ps))
\* apply() ran to its end
Materialized == pc \in {"mount", "pacstrap", "post_install", "done"}

(* ------------------------- claims on the planner ----------------------- *)
TotalOf == partitioning[1].total_disk_size
RootOf == PyNum(partitioning[1].root_partition_size)
SizingRaised == pc = "failed" /\ msg = "ValueError: Root partition size is too large"
Contiguous(ps) ==
  /\ Len(ps) > 0 => ps[1].start = 0
  /\ \A i \in 1..(Len(ps) - 1) : ps[i + 1].start = ps[i].start + ps[i].size

\* C1: for total > 1536 and root in [0, total-1536), a layout that apply()
\* materializes is contiguous from 0 in the order boot, swap, root, [home],
\* its sizes sum to total, and a home partition has size total-1536-root.
C1_LayoutCoversDisk ==
  (Materialized /\ TotalOf > 1536 /\ RootOf >= 0 /\ RootOf < TotalOf - 1536) =>
    /\ Contiguous(Parts)
    /\ SumSizes(Parts) = TotalOf
    /\ Len(Parts) = 4 => Parts[4].size = TotalOf - 1536 - RootOf

\* C2: apply() raises the sizing error exactly when root > 0 and
\* root >= total - 512 - 1024 - root; never with root = 0; total=20480,
\* root=15000 fails and total=40960, root=10240 is accepted.
C2_SizingErrorExactly ==
  pc # "apply" =>
    /\ SizingRaised <=> (RootOf > 0 /\ RootOf >= TotalOf - 512 - 1024 - RootOf)
    /\ RootOf = 0 => ~SizingRaised
    /\ (TotalOf = 20480 /\ RootOf = 15000) => SizingRaised
    /\ (TotalOf = 40960 /\ RootOf = 10240) => ~SizingRaised
C2_Witness == SizingRaised /\ TotalOf = 20480 /\ RootOf = 15000

\* C3: with root = 0 apply() materializes exactly boot [0,512),
\* swap [512,1536) and root [1536,total) of size total-1536, and no home.
C3_NoHomeLayout ==
  (Materialized /\ RootOf = 0) =>
    /\ Len(Parts) = 3
    /\ Parts[1].start = 0 /\ Parts[1].size = 512
    /\ Parts[2].start = 512 /\ Parts[2].size = 1024
    /\ Parts[3].start = 1536 /\ Parts[3].size = TotalOf - 1536
    /\ Parts[3].start + Parts[3].size = TotalOf
    /\ TotalOf = 12288 => Parts[3].size = 10752
    /\ \A i \in DOMAIN cmds : cmds[i].target # PartName(partitioning[1].device, 4)
C3_Witness ==
  /\ Materialized /\ RootOf = 0 /\ TotalOf = 12288
  /\ Len(Parts) = 3 /\ Parts[3].size = 10752

(* ----------------------- InstallerTextWizard: prompts ------------------ *)
\* VALID_UNIX: x.isalnum() and len(x) > 0, a bool
VALID_UNIX(x) == PyBool(IsAlnum(x) /\ Len(x) > 0)

\* the check of the password prompt: bool(x.strip())
PasswordCheck(x) == PyBool(Len(Strip(x)) > 0)

\* isinstance(result, int): bool is a subclass of int
IsInstanceInt(result) == result.t \in {"int", "bool"}

\* ask(prompt, check) on the input line v, check(v) being result:
\* returns tells whether ask returns (otherwise it prints 'Invalid input'
\* and reads again), val is the value it returns
Ask(v, result) ==
  LET isTrue == result.t = "bool" /\ result.b
  IN [returns |-> isTrue \/ result.t = "str" \/ IsInstanceInt(result),
      val |-> IF isTrue THEN PyStr(v) ELSE result]

\* mutant: the answer is not lower-cased
ask_yn_NoLower(v) == ~StartsWith(Strip(v), <<"n">>)

\* ask_yn(prompt) on the input line v
ask_yn(v) == ~StartsWith(Lower(Strip(v)), <<"n">>)

\* mutant: a gigabyte counts 1000 megabytes
SizeValue_Decimal(numer, denom, isG) ==
  IF isG THEN (numer * 1000) \div denom ELSE numer \div denom

\* int(num * 1024) if unit == 'G' else int(num), num being numer/denom
SizeValue(numer, denom, isG) ==
  IF isG THEN (numer * 1024) \div denom ELSE numer \div denom

\* size_filter(value) of ask_size: the regular expression
\* ^(\d+(?:\.\d+)?)([MG]?)$ on the stripped, upper-cased text, then
\* int(num * 1024) for G and int(num) otherwise; False when it does not
\* match.  float(num) is the exact decimal here: a double holds the texts
\* of the bounded lengths used without an error that reaches the integer part
size_filter(x) ==
  LET v == Upper(Strip(x))
      a == DigitRun(v)
      afterInt == Drop(v, a)
      hasFrac == /\ Len(afterInt) >= 2
                 /\ afterInt[1] = "."
                 /\ DigitRun(Tail(afterInt)) >= 1
      f == IF hasFrac THEN DigitRun(Tail(afterInt)) ELSE 0
      afterNum == IF hasFrac THEN Drop(afterInt, 1 + f) ELSE afterInt
      hasUnit == Len(afterNum) >= 1 /\ afterNum[1] \in {"M", "G"}
      rest == IF hasUnit THEN Tail(afterNum) ELSE afterNum
      matched == a >= 1 /\ rest = <<>>
      numer == DigitsValue(SubSeq(v, 1, a) \o SubSeq(afterInt, 2, 1 + f))
      denom == Pow10(f)
  IN IF ~matched THEN PyBool(FALSE)
     ELSE PyInt(SizeValue(numer, denom, hasUnit /\ afterNum[1] = "G"))

\* int(choice): optional surrounding whitespace, optional sign, digits;
\* ok = FALSE stands for ValueError
ParseInt(x) ==
  LET t == Strip(x)
      signed == Len(t) > 0 /\ t[1] \in {"+", "-"}
      body == IF signed THEN Tail(t) ELSE t
      ok == Len(body) > 0 /\ DigitRun(body) = Len(body)
  IN [ok |-> ok,
      n |-> IF ~ok THEN 0
            ELSE IF signed /\ t[1] = "-" THEN 0 - DigitsValue(body)
            ELSE DigitsValue(body)]

\* [item for item in items if query in item]: the items are not lower-cased
Matches_CaseSensitive(its, query) ==
  SelectSeq(its, LAMBDA it : Contains(it, query))

\* [item for item in items if query in item.lower()]
Matches(its, query) ==
  SelectSeq(its, LAMBDA it : Contains(Lower(it), query))

\* one round of the loop of choose(prompt, items) on the input line v:
\*   return  - choose returns item
\*   recurse - a search matched: choose calls itself with the matches
\*   again   - a notice is printed and the same items are offered again
\*   crash   - items[index] on a set raises TypeError
ChooseOutcome(v, its, isList) ==
  IF StartsWith(v, <<"/">>)
  THEN LET query == Lower(Drop(v, 1))
           matches == Matches(its, query)
       IN IF matches # <<>>
          THEN [kind |-> "recurse", item |-> <<>>, items |-> matches, msg |-> ""]
          ELSE [kind |-> "again", item |-> <<>>, items |-> its,
                msg |-> "No matches found"]
  ELSE LET n == ParseInt(v)
           index == n.n - 1
       IN IF ~n.ok
          THEN [kind |-> "again", item |-> <<>>, items |-> its,
                msg |-> "Invalid input, please enter a number or a search query"]
          ELSE IF 0 <= index /\ index < Len(its)
          THEN IF isList
               THEN [kind |-> "return", item |-> its[index + 1], items |-> its,
                     msg |-> ""]
               ELSE [kind |-> "crash", item |-> <<>>, items |-> its,
                     msg |-> "TypeError: 'set' object is not subscriptable"]
          ELSE [kind |-> "again", item |-> <<>>, items |-> its,
                msg |-> "Please choose a number between 1 and len(items)"]

\* item.split()[0]
RECURSIVE UntilSpace(_)
UntilSpace(s) ==
  IF Len(s) = 0 \/ s[1] \in Whitespace THEN <<>>
  ELSE <<s[1]>> \o UntilSpace(Tail(s))
FirstToken(s) == UntilSpace(LStrip(s))

(* ------------------------- the operator's inputs ----------------------- *)
T_pc1 == <<"p","c","1">>
T_a_b == <<"a"," ","b">>
T_bob == <<"b","o","b">>
HostTexts == {T_pc1, T_a_b, <<>>}
UserTexts == {T_bob, T_a_b, <<>>}
PassTexts == {<<"p","w">>, <<" ">>}
YnTexts == {<<>>, <<"n">>, <<" ","N","o">>}
SizeTexts == {<<"1","G">>, <<"a","b","c">>}
ChoiceTexts == {<<"1">>, <<" ","2">>, <<"3">>, <<"0">>, <<"x">>,
                <<"/">>, <<"/","t">>, <<"/","M">>, <<"/","x">>,
                <<"/","s","d","b">>}
\* zoneinfo.available_timezones(), cut down to three of its keys
TzCatalog == {<<"U","T","C">>, <<"G","M","T">>, <<"E","E","T">>}
\* the orders in which a set may be iterated
Orders(S) == {f \in [1..Cardinality(S) -> S] : Range(f) = S}
\* the lines of lsblk -d -o NAME,SIZE after the header
Devices == << <<"s","d","a"," ","1","0","0","G">>, <<"s","d","b"," ","5","0","G">> >>
\* the sizes the disk size query may answer, in MB
WizardDisks == {1024, 12288}

(* ---------------------- InstallerTextWizard: the steps ----------------- *)
DevPrefix == <<"/","d","e","v","/">>
\* PostInstall(packages, scripts)
NewPostInstall(packages, scripts) == [packages |-> packages, scripts |-> scripts]

\* the sequences over S of length at most n
SeqsUpTo(S, n) == UNION {[1..k -> S] : k \in 0..n}
SomeUsers ==
  {[username |-> PyStr(T_bob), password |-> PyStr(<<"p","w">>), sudo |-> TRUE],
   [username |-> PyStr(<<"a","l">>), password |-> PyBool(FALSE), sudo |-> FALSE]}
SomeGenerals ==
  {[timezone |-> PyStr(<<"U","T","C">>), hostname |-> h, users |-> us] :
     h \in {PyStr(T_pc1), PyBool(FALSE)}, us \in SeqsUpTo(SomeUsers, MaxUsers)}
SomeRoots == {PyInt(0), PyInt(10240), PyBool(FALSE)}
SerializeDisks == {12288, 40960}
SomePartitionings ==
  {NewPartitioning(DevSda, r, t) : r \in SomeRoots, t \in SerializeDisks}
SomePackages == {"vim", "git"}
SomeScripts == {<<"h", "a.sh">>, <<"h", "b.sh">>}
SomePostInstalls ==
  {NewPostInstall(ps, ss) : ps \in SeqsUpTo(SomePackages, MaxPackages),
                            ss \in SeqsUpTo(SomeScripts, MaxScripts)}

installVars == <<general, partitioning, cmds, failures, reported, post_install,
                 serialized, restored>>

\* users = [] at the start of collect_users; prev is the list of the round before
FreshUsers(prev) == <<>>

\* a new call of collect_general, or its return: no local is bound
NoGeneralLocals ==
  /\ hostname' = PyNone /\ timezone' = PyNone /\ users' = <<>>
  /\ username' = PyNone /\ password' = PyNone
\* a new call of collect_partitioning: no local is bound
NoPartitioningLocals == device' = <<>> /\ root_size' = PyNone

\* mutant: a rejected review only collects the users again
RejectedGeneralRestart_UsersOnly == "username"

\* review_general, rejected: return self.collect_general()
RejectedGeneralRestart == "hostname"
\* review_partitioning, rejected: return self.collect_partitioning()
RejectedPartitioningRestart == "dev"

\* collect_general: ask('Hostname', VALID_UNIX), then the timezone menu is shown
AskHostname ==
  /\ pc = "hostname"
  /\ \E v \in HostTexts :
       LET a == Ask(v, VALID_UNIX(v))
       IN /\ value' = v
          /\ IF a.returns
             THEN /\ hostname' = a.val
                  /\ entered' = Append(entered, a.val)
                  /\ pc' = "tz"
                  /\ msg' = ""
                  /\ items' \in Orders(TzCatalog)
                  /\ origItems' = items'
                  /\ queries' = {}
                  /\ itemsIsList' = FALSE
                  /\ searches' = 0
             ELSE /\ msg' = "Invalid input"
                  /\ UNCHANGED <<hostname, entered, pc, items, itemsIsList, searches,
                                 chooseHist>>
  /\ UNCHANGED <<depth, timezone, users, username, password, device, root_size>>
  /\ UNCHANGED installVars

\* what one input line does to a running choose() that does not return
ChooseGoesOn_Reset(o) ==
  /\ o.kind = "recurse" => searches < MaxSearches
  /\ pc' = IF o.kind = "crash" THEN "failed" ELSE pc
  /\ items' = IF o.kind = "again" THEN origItems ELSE o.items
  /\ itemsIsList' = IF o.kind = "recurse" THEN TRUE ELSE itemsIsList
  /\ searches' = IF o.kind = "recurse" THEN searches + 1 ELSE searches
  /\ origItems' = origItems
  /\ queries' = IF o.kind = "recurse"
                THEN queries \cup {Lower(Drop(value', 1))} ELSE queries

ChooseGoesOn(o) ==
  /\ o.kind = "recurse" => searches < MaxSearches
  /\ pc' = IF o.kind = "crash" THEN "failed" ELSE pc
  /\ items' = o.items
  /\ itemsIsList' = IF o.kind = "recurse" THEN TRUE ELSE itemsIsList
  /\ searches' = IF o.kind = "recurse" THEN searches + 1 ELSE searches
  /\ origItems' = origItems
  /\ queries' = IF o.kind = "recurse"
                THEN queries \cup {Lower(Drop(value', 1))} ELSE queries

\* collect_general: choose('Timezone', available_timezones()); when it
\* returns, collect_users starts
ChooseTimezone ==
  /\ pc = "tz"
  /\ \E v \in ChoiceTexts :
       LET o == ChooseOutcome(v, items, itemsIsList)
       IN /\ value' = v
          /\ msg' = o.msg
          /\ IF o.kind = "return"
             THEN /\ timezone' = PyStr(o.item)
                  /\ entered' = Append(entered, PyStr(o.item))
                  /\ users' = FreshUsers(users)
                  /\ pc' = "username"
                  /\ items' = <<>>
                  /\ origItems' = <<>>
                  /\ queries' = {}
                  /\ itemsIsList' = TRUE
                  /\ searches' = 0
             ELSE /\ ChooseGoesOn(o)
                  /\ UNCHANGED <<timezone, entered, users>>
  /\ UNCHANGED <<depth, hostname, username, password, device, root_size>>
  /\ UNCHANGED installVars

\* collect_user: ask('Username', VALID_UNIX); a falsy username makes
\* collect_user return None, which ends the loop of collect_users
AskUsername ==
  /\ pc = "username"
  /\ \E v \in UserTexts :
       LET a == Ask(v, VALID_UNIX(v))
       IN /\ value' = v
          /\ IF a.returns
             THEN /\ Truthy(a.val) => Len(users) < MaxUsers
                  /\ username' = a.val
                  /\ pc' = IF Truthy(a.val) THEN "password" ELSE "review_general"
                  /\ msg' = ""
             ELSE /\ msg' = "Invalid input"
                  /\ UNCHANGED <<username, pc>>
  /\ UNCHANGED <<items, itemsIsList, searches, chooseHist, depth, entered, hostname, timezone,
                 users, password, device, root_size>>
  /\ UNCHANGED installVars

\* collect_user: ask('Password', lambda x: bool(x.strip()))
AskPassword ==
  /\ pc = "password"
  /\ \E v \in PassTexts :
       LET a == Ask(v, PasswordCheck(v))
       IN /\ value' = v
          /\ IF a.returns
             THEN /\ password' = a.val
                  /\ pc' = "sudo"
                  /\ msg' = ""
             ELSE /\ msg' = "Invalid input"
                  /\ UNCHANGED <<password, pc>>
  /\ UNCHANGED <<items, itemsIsList, searches, chooseHist, depth, entered, hostname, timezone,
                 users, username, device, root_size>>
  /\ UNCHANGED installVars

\* collect_user: ask_yn('Can ... use sudo?'), User(...), users.append(user)
AskSudo ==
  /\ pc = "sudo"
  /\ \E v \in YnTexts :
       /\ value' = v
       /\ users' = Append(users, [username |-> username, password |-> password,
                                  sudo |-> ask_yn(v)])
       /\ entered' = entered \o <<username, password, PyBool(ask_yn(v))>>
  /\ pc' = "username"
  /\ msg' = ""
  /\ UNCHANGED <<items, itemsIsList, searches, chooseHist, depth, hostname, timezone,
                 username, password, device, root_size>>
  /\ UNCHANGED installVars

\* the start of collect_partitioning: lsblk (check=True), then the device menu
StartCollectPartitioning ==
  \E ok \in BOOLEAN :
    IF ok
    THEN /\ pc' = RejectedPartitioningRestart
         /\ msg' = ""
         /\ items' = Devices
         /\ origItems' = Devices
         /\ queries' = {}
         /\ itemsIsList' = TRUE
         /\ searches' = 0
    ELSE /\ pc' = "failed"
         /\ msg' = "CalledProcessError"
         /\ UNCHANGED <<items, itemsIsList, searches, chooseHist>>

\* review_general: accepted, General(...) is returned to run(), which calls
\* collect_partitioning; rejected, collect_general is called again
ReviewGeneral ==
  /\ pc = "review_general"
  /\ \E v \in YnTexts :
       /\ value' = v
       /\ IF ask_yn(v)
          THEN /\ general' = <<[timezone |-> timezone, hostname |-> hostname,
                                users |-> users]>>
               /\ depth' = 0
               /\ StartCollectPartitioning
          ELSE /\ depth < MaxDepth
               /\ depth' = depth + 1
               /\ pc' = RejectedGeneralRestart
               /\ msg' = ""
               /\ UNCHANGED <<general, items, itemsIsList, searches, chooseHist>>
  /\ entered' = <<>>
  /\ NoGeneralLocals
  /\ UNCHANGED <<device, root_size, partitioning, cmds, failures, reported,
                 post_install, serialized, restored>>

\* collect_partitioning: choose('Device', devices), '/dev/' + item.split()[0]
ChooseDevice ==
  /\ pc = "dev"
  /\ \E v \in ChoiceTexts :
       LET o == ChooseOutcome(v, items, itemsIsList)
       IN /\ value' = v
          /\ msg' = o.msg
          /\ IF o.kind = "return"
             THEN /\ device' = DevPrefix \o FirstToken(o.item)
                  /\ entered' = Append(entered, PyStr(DevPrefix \o FirstToken(o.item)))
                  /\ pc' = "home_yn"
                  /\ items' = <<>>
                  /\ origItems' = <<>>
                  /\ queries' = {}
                  /\ itemsIsList' = TRUE
                  /\ searches' = 0
             ELSE /\ ChooseGoesOn(o)
                  /\ UNCHANGED <<device, entered>>
  /\ UNCHANGED <<depth, hostname, timezone, users, username, password, root_size>>
  /\ UNCHANGED installVars

\* collect_partitioning: ask_yn('Do you want a separate /home partition?');
\* no: review_partitioning(device, 0)
AskSeparateHome ==
  /\ pc = "home_yn"
  /\ \E v \in YnTexts :
       /\ value' = v
       /\ IF ~ask_yn(v)
          THEN /\ root_size' = PyInt(0)
               /\ entered' = Append(entered, PyInt(0))
               /\ pc' = "review_part"
          ELSE /\ pc' = "size"
               /\ UNCHANGED <<root_size, entered>>
  /\ msg' = ""
  /\ UNCHANGED <<items, itemsIsList, searches, chooseHist, depth, hostname, timezone, users,
                 username, password, device>>
  /\ UNCHANGED installVars

\* collect_partitioning: ask_size(...) = ask(prompt, size_filter) on a line
\* of texts, then review_partitioning(device, root_partition_size)
AskSizeFrom(texts) ==
  /\ pc = "size"
  /\ \E v \in texts :
       LET r == size_filter(v)
           a == Ask(v, r)
       IN /\ value' = v
          /\ IF a.returns
             THEN /\ root_size' = a.val
                  /\ entered' = Append(entered, a.val)
                  /\ pc' = "review_part"
                  /\ msg' = IF Truthy(r) \/ r.t = "int" THEN ""
                            ELSE "Please enter a number followed by optional M or G"
             ELSE /\ msg' = "Invalid input"
                  /\ UNCHANGED <<root_size, entered, pc>>
  /\ UNCHANGED <<items, itemsIsList, searches, chooseHist, depth, hostname, timezone, users,
                 username, password, device>>
  /\ UNCHANGED installVars

AskSize == AskSizeFrom(SizeTexts)

\* review_partitioning: accepted, Partitioning(device, root_partition_size)
\* is built (its __init__ queries the disk size, check=True) and run() goes
\* on to confirm_install; rejected, collect_partitioning is called again
ReviewPartitioning ==
  /\ pc = "review_part"
  /\ \E v \in YnTexts :
       /\ value' = v
       /\ IF ask_yn(v)
          THEN /\ depth' = 0
               /\ UNCHANGED <<items, itemsIsList, searches, chooseHist>>
               /\ \E ok \in BOOLEAN :
                    IF ok
                    THEN /\ \E total \in WizardDisks :
                              partitioning' = <<NewPartitioning(device, root_size, total)>>
                         /\ post_install' = <<NewPostInstall(<<>>, <<>>)>>
                         /\ pc' = "confirm1"
                         /\ msg' = ""
                    ELSE /\ pc' = "failed"
                         /\ msg' = "CalledProcessError"
                         /\ UNCHANGED <<partitioning, post_install>>
          ELSE /\ depth < MaxDepth
               /\ depth' = depth + 1
               /\ StartCollectPartitioning
               /\ UNCHANGED <<partitioning, post_install>>
  /\ entered' = <<>>
  /\ NoPartitioningLocals
  /\ UNCHANGED <<hostname, timezone, users, username, password, general, cmds,
                 failures, reported, serialized, restored>>

\* confirm_install: 'Do you want to install?'; declined: sys.exit
ConfirmInstall1 ==
  /\ pc = "confirm1"
  /\ \E v \in YnTexts :
       /\ value' = v
       /\ pc' = IF ask_yn(v) THEN "confirm2" ELSE "aborted"
       /\ msg' = IF ask_yn(v) THEN "" ELSE "Installation aborted"
  /\ UNCHANGED <<items, itemsIsList, searches, chooseHist, depth, entered, hostname, timezone,
                 users, username, password, device, root_size>>
  /\ UNCHANGED installVars

\* confirm_install: 'This will wipe everything. Are you sure?'; declined:
\* sys.exit; else the Installer is returned and run() calls install()
ConfirmInstall2 ==
  /\ pc = "confirm2"
  /\ \E v \in YnTexts :
       /\ value' = v
       /\ pc' = IF ask_yn(v) THEN "apply" ELSE "aborted"
       /\ msg' = IF ask_yn(v) THEN "" ELSE "Installation aborted"
  /\ UNCHANGED <<items, itemsIsList, searches, chooseHist, depth, entered, hostname, timezone,
                 users, username, password, device, root_size>>
  /\ UNCHANGED installVars

(* ------------------------------ Installer ------------------------------ *)
Write(path) == Cmd("write", <<>>, path, 0, 0)
Chroot(what, who) == Cmd(what, who, "arch-chroot /mnt", 0, 0)

\* add_users: useradd -m -G wheel and chpasswd for every user, in order
RECURSIVE AddUsers(_)
AddUsers(us) ==
  IF Len(us) = 0 THEN <<>>
  ELSE <<Chroot("useradd -m -G wheel", Head(us).username.s),
         Chroot("chpasswd", Head(us).username.s)>> \o AddUsers(Tail(us))

\* install(): pacstrap, genfstab, up to the opening of /mnt/etc/hostname
StepsToHostname ==
  <<Cmd("pacstrap", <<>>, "/mnt", 0, 0),
    Write("/mnt/etc/fstab"),
    Cmd("genfstab", <<>>, "/mnt", 0, 0),
    Write("/mnt/etc/hostname")>>

\* install(): add_users up to setup_network
StepsAfterHostname(g, p) ==
  AddUsers(g.users)
  \o <<Write("/mnt/etc/sudoers"),
       Chroot("passwd -l", <<"r","o","o","t">>),
       Write("/mnt/etc/hosts"),
       Cmd("ln -sf", <<>>, "/mnt/etc/localtime", 0, 0),
       Chroot("hwclock --systohc", <<>>),
       Write("/mnt/etc/locale.gen"),
       Chroot("locale-gen", <<>>),
       Write("/mnt/etc/locale.conf"),
       Chroot("bootctl install", <<>>),
       Write("/mnt/boot/loader/loader.conf"),
       Write("/mnt/boot/loader/entries/linux.conf"),
       Cmd("blkid", PartName(p.device, 3), "PARTUUID", 0, 0),
       Chroot("pacman -S networkmanager", <<>>),
       Chroot("systemctl enable NetworkManager", <<>>)>>

\* install() from pacstrap to setup_network; f.write(hostname) raises
\* TypeError when the hostname is not a str
InstallSystem ==
  /\ pc = "pacstrap"
  /\ IF general[1].hostname.t = "str"
     THEN RunChecked(StepsToHostname \o StepsAfterHostname(general[1], partitioning[1]),
                     "post_install")
     ELSE \E k \in 1..Len(StepsToHostname) :
            /\ cmds' = cmds \o SubSeq(StepsToHostname, 1, k)
            /\ failures' = failures \cup {Len(cmds) + k}
            /\ pc' = "failed"
            /\ msg' = IF k = Len(StepsToHostname) THEN "TypeError" ELSE "CalledProcessError"
  /\ UNCHANGED <<wizardVars, objectVars>>

\* PostInstall.install_packages: pacman without check=True
InstallPackages(po) == Chroot("pacman -S --noconfirm", po.packages)

\* script.split('/')[-1], a script being the tuple of the parts of its URL
ScriptName(script) == script[Len(script)]

\* the three commands of the try block, for one script
ScriptSteps(script) ==
  <<Cmd("curl -o", script, ScriptName(script), 0, 0),
    Cmd("chmod +x", <<>>, ScriptName(script), 0, 0),
    Chroot("run", ScriptName(script))>>

\* the for loop of download_and_run_scripts from script i on, the commands
\* landing after position base: outs[i] commands of script i succeed; with
\* outs[i] < 3 the next one is issued and fails, the except clause prints it
RECURSIVE RunScripts(_, _, _, _)
RunScripts(scripts, outs, i, base) ==
  IF i > Len(scripts) THEN [cmds |-> <<>>, failed |-> {}, reported |-> <<>>]
  ELSE LET bad == outs[i] < 3
           mine == SubSeq(ScriptSteps(scripts[i]), 1, IF bad THEN outs[i] + 1 ELSE 3)
           rest == RunScripts(scripts, outs, i + 1, base + Len(mine))
       IN [cmds |-> mine \o rest.cmds,
           failed |-> (IF bad THEN {base + Len(mine)} ELSE {}) \cup rest.failed,
           reported |-> (IF bad THEN <<scripts[i]>> ELSE <<>>) \o rest.reported]

\* post_install.install() with the failure of a script ending the installation
PostInstallStep_ScriptFailureAborts ==
  /\ pc = "post_install"
  /\ LET po == post_install[1]
         mkdir == Cmd("mkdir", <<>>, "/mnt/tmp", 0, 0)
         at == Len(cmds)
     IN \E pacmanOk \in BOOLEAN, mkdirOk \in BOOLEAN :
          \E outs \in [1..Len(po.scripts) -> 0..3] :
            LET pf == IF pacmanOk THEN {} ELSE {at + 1}
                r == RunScripts(po.scripts, outs, 1, at + 2)
            IN IF mkdirOk
               THEN /\ cmds' = cmds \o <<InstallPackages(po), mkdir>> \o r.cmds
                    /\ failures' = failures \cup pf \cup r.failed
                    /\ reported' = reported \o r.reported
                    /\ pc' = IF r.failed = {} THEN "done" ELSE "failed"
                    /\ msg' = IF r.failed = {} THEN "Installation complete!"
                              ELSE "CalledProcessError"
               ELSE /\ cmds' = cmds \o <<InstallPackages(po), mkdir>>
                    /\ failures' = failures \cup pf \cup {at + 2}
                    /\ reported' = reported
                    /\ pc' = "failed"
                    /\ msg' = "OSError"
  /\ UNCHANGED <<wizardVars, general, partitioning, post_install, serialized, restored>>

\* post_install.install(): install_packages, whose result nobody looks at,
\* then download_and_run_scripts: os.makedirs('/mnt/tmp'), then the loop
PostInstallStep ==
  /\ pc = "post_install"
  /\ LET po == post_install[1]
         mkdir == Cmd("mkdir", <<>>, "/mnt/tmp", 0, 0)
         at == Len(cmds)
     IN \E pacmanOk \in BOOLEAN, mkdirOk \in BOOLEAN :
          \E outs \in [1..Len(po.scripts) -> 0..3] :
            LET pf == IF pacmanOk THEN {} ELSE {at + 1}
                r == RunScripts(po.scripts, outs, 1, at + 2)
            IN IF mkdirOk
               THEN /\ cmds' = cmds \o <<InstallPackages(po), mkdir>> \o r.cmds
                    /\ failures' = failures \cup pf \cup r.failed
                    /\ reported' = reported \o r.reported
                    /\ pc' = "done"
                    /\ msg' = "Installation complete!"
               ELSE /\ cmds' = cmds \o <<InstallPackages(po), mkdir>>
                    /\ failures' = failures \cup pf \cup {at + 2}
                    /\ reported' = reported
                    /\ pc' = "failed"
                    /\ msg' = "OSError"
  /\ UNCHANGED <<wizardVars, general, partitioning, post_install, serialized, restored>>

\* post_install.install() on its own: a PostInstall with packages and scripts
InitPostInstall ==
  /\ WizardIdle
  /\ pc = "post_install"
  /\ msg = ""
  /\ general = <<>>
  /\ partitioning = <<>>
  /\ post_install \in {<<po>> : po \in SomePostInstalls}
  /\ NothingDone

NextPostInstall == PostInstallStep
SpecPostInstall == InitPostInstall /\ [][NextPostInstall]_vars

(* --------------------------- the whole program ------------------------- *)
\* InstallerTextWizard().run() waiting at its first prompt
Init ==
  /\ WizardIdle
  /\ pc = "hostname"
  /\ msg = ""
  /\ general = <<>>
  /\ partitioning = <<>>
  /\ post_install = <<>>
  /\ NothingDone

Next ==
  \/ AskHostname \/ ChooseTimezone \/ AskUsername \/ AskPassword \/ AskSudo
  \/ ReviewGeneral
  \/ ChooseDevice \/ AskSeparateHome \/ AskSize \/ ReviewPartitioning
  \/ ConfirmInstall1 \/ ConfirmInstall2
  \/ Apply \/ Mount \/ InstallSystem \/ PostInstallStep

Spec == Init /\ [][Next]_vars

(* -------------- the size prompt on its own, on bounded texts ----------- *)
ParserAlphabet == {"0", "1", "5", ".", "G", "g", "M", " ", "a"}
ParserTexts ==
  UNION {[1..n -> ParserAlphabet] : n \in 0..MaxLen}
  \cup {<<"5","1","2">>, <<"1","G">>, <<"1",".","5","G">>, <<"5","1","2",".","9">>,
        <<"a","b","c">>, <<" ","1",".","5","g"," ">>}

\* the wizard at the size prompt of collect_partitioning
InitParser ==
  /\ pc = "size"
  /\ value = <<>>
  /\ msg = ""
  /\ items = <<>> /\ itemsIsList = TRUE /\ searches = 0 /\ depth = 0
  /\ origItems = <<>> /\ queries = {}
  /\ hostname = PyNone /\ timezone = PyNone /\ users = <<>>
  /\ username = PyNone /\ password = PyNone
  /\ device = DevSda /\ root_size = PyNone
  /\ entered = <<PyStr(DevSda)>>
  /\ general = <<[timezone |-> PyStr(<<"U","T","C">>), hostname |-> PyStr(T_pc1),
                  users |-> <<>>]>>
  /\ partitioning = <<>>
  /\ post_install = <<>>
  /\ NothingDone

ParserAskSize == AskSizeFrom(ParserTexts)
NextParser == ParserAskSize
SpecParser == InitParser /\ [][NextParser]_vars

(* ----------------------------- serialization --------------------------- *)
\* a dict is the sequence of its <<key, value>> items, in insertion order
DictHas(d, key) == \E i \in 1..Len(d) : d[i][1] = key
\* d[key]
DictGet(d, key) == d[CHOOSE i \in 1..Len(d) : d[i][1] = key][2]
\* d.get(key, default)
DictGetOr(d, key, default) == IF DictHas(d, key) THEN DictGet(d, key) ELSE default

User_serialize(u) ==
  << <<"username", u.username>>, <<"password", u.password>>, <<"sudo", u.sudo>> >>
User_deserialize(d) ==
  [username |-> DictGet(d, "username"), password |-> DictGet(d, "password"),
   sudo |-> DictGet(d, "sudo")]

General_serialize(g) ==
  << <<"timezone", g.timezone>>, <<"hostname", g.hostname>>,
     <<"users", [i \in 1..Len(g.users) |-> User_serialize(g.users[i])]>> >>
General_deserialize(d) ==
  LET us == DictGet(d, "users")
  IN [timezone |-> DictGet(d, "timezone"), hostname |-> DictGet(d, "hostname"),
      users |-> [i \in 1..Len(us) |-> User_deserialize(us[i])]]

\* Partitioning.serialize without the root size
Partitioning_serialize_DeviceOnly(p) == << <<"device", p.device>> >>

Partitioning_serialize(p) ==
  << <<"device", p.device>>, <<"root_partition_size", p.root_partition_size>> >>
\* total: what get_disk_size answers inside Partitioning.__init__
Partitioning_deserialize(d, total) ==
  NewPartitioning(DictGet(d, "device"), DictGetOr(d, "root_partition_size", PyInt(0)),
                  total)

PostInstall_serialize(po) ==
  << <<"packages", po.packages>>, <<"scripts", po.scripts>> >>
PostInstall_deserialize(d) ==
  NewPostInstall(DictGet(d, "packages"), DictGet(d, "scripts"))

\* Installer(general, partitioning, post_install)
NewInstaller(g, p, po) == [general |-> g, partitioning |-> p, post_install |-> po]
Installer_serialize(i) ==
  << <<"general", General_serialize(i.general)>>,
     <<"partitioning", Partitioning_serialize(i.partitioning)>>,
     <<"post_install", PostInstall_serialize(i.post_install)>> >>
Installer_deserialize(d, total) ==
  NewInstaller(General_deserialize(DictGet(d, "general")),
               Partitioning_deserialize(DictGet(d, "partitioning"), total),
               PostInstall_deserialize(DictGet(d, "post_install")))

\* an Installer about to be serialized
InitSerialize ==
  /\ WizardIdle
  /\ pc = "serialize"
  /\ msg = ""
  /\ general \in {<<g>> : g \in SomeGenerals}
  /\ partitioning \in {<<p>> : p \in SomePartitionings}
  /\ post_install \in {<<po>> : po \in SomePostInstalls}
  /\ NothingDone

\* Installer.serialize()
Serialize ==
  /\ pc = "serialize"
  /\ serialized' = <<Installer_serialize(
                      NewInstaller(general[1], partitioning[1], post_install[1]))>>
  /\ pc' = "deserialize"
  /\ msg' = ""
  /\ UNCHANGED <<wizardVars, general, partitioning, post_install, cmds, failures,
                 reported, restored>>

\* Installer.deserialize(d); Partitioning.__init__ asks lsblk for the disk
\* size again (check=True)
Deserialize ==
  /\ pc = "deserialize"
  /\ \E ok \in BOOLEAN :
       IF ok
       THEN /\ \E total \in SerializeDisks :
                 restored' = <<Installer_deserialize(serialized[1], total)>>
            /\ pc' = "restored"
            /\ msg' = ""
       ELSE /\ pc' = "failed"
            /\ msg' = "CalledProcessError"
            /\ restored' = restored
  /\ UNCHANGED <<wizardVars, general, partitioning, post_install, cmds, failures,
                 reported, serialized>>

NextSerialize == Serialize \/ Deserialize
SpecSerialize == InitSerialize /\ [][NextSerialize]_vars

(* -------------------------- claims on the wizard ----------------------- *)
\* an answer that, trimmed and lower-cased, begins with 'n'
Declines(v) == LET t == Lower(Strip(v)) IN Len(t) > 0 /\ t[1] = "n"
InstallPcs == {"apply", "mount", "pacstrap", "post_install"}

\* one step of the program as C4 allows it
C4_DeclineIssuesNothing_Step ==
  /\ (pc \in {"confirm1", "confirm2"} /\ Declines(value')) =>
       (pc' = "aborted" /\ msg' = "Installation aborted" /\ cmds' = <<>>)
  /\ pc' = "confirm2" => (pc = "confirm1" /\ ~Declines(value'))
  /\ (pc' = "apply" /\ pc # "apply") => (pc = "confirm2" /\ ~Declines(value'))
  /\ cmds' # cmds => pc \in InstallPcs
  /\ pc # "aborted"

\* C4: a declined ConfirmInstall question ends the run with the abort
\* message and nothing issued; install() starts only from the second
\* question, the second only from the first, both not declined; commands
\* are issued by the install steps only and nothing follows an abort.
C4_DeclineIssuesNothing == [][C4_DeclineIssuesNothing_Step]_vars
C4_Witness ==
  /\ pc = "aborted" /\ value = <<" ","N","o">> /\ msg = "Installation aborted"
  /\ general # <<>> /\ partitioning # <<>> /\ cmds = <<>>

\* the state of section 4.4 a position belongs to
Section(p) ==
  CASE p \in {"hostname", "tz", "username", "password", "sudo"} -> "CollectGeneral"
    [] p = "review_general" -> "ReviewGeneral"
    [] p \in {"dev", "home_yn", "size"} -> "CollectPartitioning"
    [] p = "review_part" -> "ReviewPartitioning"
    [] p \in {"confirm1", "confirm2"} -> "ConfirmInstall"
    [] p = "aborted" -> "abort"
    [] p = "failed" -> "crash"
    [] OTHER -> "Install"
WizardEdges ==
  {<<"CollectGeneral", "ReviewGeneral">>, <<"ReviewGeneral", "CollectGeneral">>,
   <<"ReviewGeneral", "CollectPartitioning">>,
   <<"CollectPartitioning", "ReviewPartitioning">>,
   <<"ReviewPartitioning", "CollectPartitioning">>,
   <<"ReviewPartitioning", "ConfirmInstall">>,
   <<"ConfirmInstall", "abort">>, <<"ConfirmInstall", "Install">>}
\* the General that the values returned by the prompts of one round make up
GeneralFrom(e) ==
  [timezone |-> e[2], hostname |-> e[1],
   users |-> [i \in 1..((Len(e) - 2) \div 3) |->
                [username |-> e[3 * i], password |-> e[3 * i + 1],
                 sudo |-> e[3 * i + 2].b]]]

\* one step of the program as C5 allows it
C5_WizardOrder_Step ==
  /\ Section(pc') # Section(pc) =>
       (Section(pc') = "crash" \/ <<Section(pc), Section(pc')>> \in WizardEdges)
  /\ (pc' = "hostname" /\ pc # "hostname") => pc = "review_general"
  /\ (pc = "review_general" /\ Declines(value')) =>
       /\ pc' = "hostname" /\ entered' = <<>> /\ users' = <<>>
       /\ hostname' = PyNone /\ timezone' = PyNone /\ general' = <<>>
  /\ (pc = "review_general" /\ ~Declines(value')) =>
       /\ Len(entered) = 2 + 3 * Len(users)
       /\ general' = <<GeneralFrom(entered)>>
  /\ pc # "review_general" => general' = general
  /\ (pc = "review_part" /\ Declines(value')) =>
       /\ pc' = "failed" \/ (pc' = "dev" /\ items' = Devices)
       /\ entered' = <<>> /\ device' = <<>> /\ root_size' = PyNone
       /\ partitioning' = <<>>
  /\ (pc = "review_part" /\ ~Declines(value') /\ pc' # "failed") =>
       /\ pc' = "confirm1"
       /\ Len(entered) = 2
       /\ PyStr(partitioning'[1].device) = entered[1]
       /\ partitioning'[1].root_partition_size = entered[2]
  /\ pc # "review_part" => partitioning' = partitioning

\* C5: the wizard changes section only along the edges of section 4.4 (an
\* uncaught exception aside); a rejected review restarts its Collect step
\* at the first prompt with nothing collected; an accepted review makes the
\* configuration of exactly the values the prompts returned in that round,
\* users in entry order; the accepted configuration is not changed later.
C5_WizardOrder == [][C5_WizardOrder_Step]_vars
C5_Witness ==
  /\ pc = "review_general" /\ depth >= 1
  /\ Len(users) = 2 /\ users[1].sudo /\ ~users[2].sudo
  /\ entered = <<hostname, timezone,
                 users[1].username, users[1].password, PyBool(TRUE),
                 users[2].username, users[2].password, PyBool(FALSE)>>

\* C6: every General the wizard returns has a non-empty alphanumeric text
\* as hostname and a non-blank text as the password of every user.
C6_ValidatedGeneral ==
  general # <<>> =>
    /\ general[1].hostname.t = "str" /\ IsAlnum(general[1].hostname.s)
    /\ \A i \in DOMAIN general[1].users :
         /\ general[1].users[i].password.t = "str"
         /\ Len(Strip(general[1].users[i].password.s)) > 0

\* the size grammar: digits, optional '.digits', optional unit M or G
IsDigits(t) == Len(t) > 0 /\ \A i \in DOMAIN t : IsDigit(t[i])
SizeGrammar(t) ==
  \E a \in 1..Len(t), u \in {0, 1} :
    /\ IsDigits(SubSeq(t, 1, a))
    /\ u = 1 => t[Len(t)] \in {"M", "G"}
    /\ \/ a = Len(t) - u
       \/ /\ a + 1 < Len(t) - u + 1
          /\ t[a + 1] = "."
          /\ IsDigits(SubSeq(t, a + 2, Len(t) - u))

\* one step of the program as C7 allows it
C7_BadSizeAskedAgain_Step ==
  pc = "size" =>
    IF SizeGrammar(Upper(Strip(value')))
    THEN pc' = "review_part" /\ root_size'.t = "int"
    ELSE pc' = "size" /\ root_size' = root_size

\* C7: a size text that does not match the grammar is reported and asked
\* for again; review_partitioning is entered from the size prompt only with
\* an integer that came from a matching text.
C7_BadSizeAskedAgain == [][C7_BadSizeAskedAgain_Step]_vars

\* one step of the program as C9 allows it
C9_OnlyEmptyUsernameEnds_Step ==
  /\ pc = "username" =>
       /\ pc' = "review_general" => value' = <<>>
       /\ (value' # <<>> /\ ~IsAlnum(value')) => (pc' = "username" /\ users' = users)
  /\ \A i \in DOMAIN users' :
       users'[i].username.t = "str" /\ IsAlnum(users'[i].username.s)

\* C9: at the username prompt only the empty input ends the loop; a
\* non-empty input that is not alphanumeric is asked for again, the users
\* collected so far kept; every collected user has a non-empty
\* alphanumeric username.
C9_OnlyEmptyUsernameEnds == [][C9_OnlyEmptyUsernameEnds_Step]_vars

\* one step of the program as C10 allows it
C10_ChooseByNumber_Step ==
  pc \in {"tz", "dev"} =>
    LET n == ParseInt(value')
        isSearch == Len(value') > 0 /\ value'[1] = "/"
    IN /\ (~isSearch /\ n.ok /\ n.n >= 1 /\ n.n <= Len(items)) =>
            /\ pc = "tz" => (pc' = "username" /\ timezone' = PyStr(items[n.n]))
            /\ pc = "dev" =>
                 (pc' = "home_yn" /\ device' = DevPrefix \o FirstToken(items[n.n]))
       /\ (~isSearch /\ ~(n.ok /\ n.n >= 1 /\ n.n <= Len(items))) =>
            /\ pc' = pc /\ items' = items /\ itemsIsList' = itemsIsList
            /\ msg' # ""

\* C10: at every prompt of choose an integer i in 1..size of the pool
\* returns the item numbered i (the timezone, or the device named by the
\* first word of the line); any other input that is not a search is
\* reported and the same pool is offered again.
C10_ChooseByNumber == [][C10_ChooseByNumber_Step]_vars

ChoosePcs == {"tz", "dev"}
\* the line typed at a prompt of choose is a search
IsSearch(v) == Len(v) > 0 /\ v[1] = "/"
\* the text searched for: the line without its slash, lower-cased
QueryOf(v) == Lower(Drop(v, 1))
\* the items of pool whose lower-cased text contains every query of qs
Narrowed(pool, qs) ==
  SelectSeq(pool, LAMBDA it : \A q \in qs : Contains(Lower(it), q))

\* one step of the program as C11 allows it
C11_SearchCompounds_Step ==
  /\ (pc \in ChoosePcs /\ IsSearch(value')
        /\ \E i \in 1..Len(items) : Contains(Lower(items[i]), QueryOf(value'))) =>
       /\ pc' = pc
       /\ queries' = queries \cup {QueryOf(value')}
       /\ items' = Narrowed(items, {QueryOf(value')})
  /\ pc' \in ChoosePcs => items' = Narrowed(origItems', queries')
  /\ (pc = "tz" /\ pc' = "username") => timezone'.s \in Range(origItems)
  /\ (pc = "dev" /\ pc' = "home_yn") =>
       \E i \in 1..Len(origItems) : device' = DevPrefix \o FirstToken(origItems[i])

\* C11: searches in choose compound: a search that matches leaves the items
\* of the pool whose lower-cased text contains the lower-cased query, so the
\* pool offered is always the items of the original sequence containing
\* every query so far, in their original order, and the item returned is a
\* member of the original items.
C11_SearchCompounds == [][C11_SearchCompounds_Step]_vars

\* two searches have narrowed the pool
C11_Witness ==
  /\ pc \in ChoosePcs /\ Cardinality(queries) = 2
  /\ Len(items) < Len(origItems)

\* a search typed at a prompt of choose that no item of the pool matches
NoMatch ==
  /\ pc \in ChoosePcs /\ IsSearch(value')
  /\ \A i \in 1..Len(items) : ~Contains(Lower(items[i]), QueryOf(value'))

\* one step of the program as C12 allows it
C12_NoMatchOffersOriginal_Step ==
  NoMatch => (pc' = pc /\ msg' = "No matches found" /\ items' = origItems)

\* C12: a search that matches nothing reports that there are no matches and
\* the next prompt offers the original, unfiltered pool of the outermost
\* call, also when earlier searches had narrowed it.
C12_NoMatchOffersOriginal == [][C12_NoMatchOffersOriginal_Step]_vars

\* one step of the program as the amended C12 allows it
C12_NoMatchKeepsPool_Step ==
  NoMatch =>
    /\ pc' = pc /\ msg' = "No matches found"
    /\ items' = items /\ origItems' = origItems /\ queries' = queries
    /\ queries = {} => items' = origItems

\* C12 (amended): a search that matches nothing reports that there are no
\* matches and the next prompt offers the pool that was just searched: the
\* items earlier searches had narrowed it to, the original pool only when
\* no search had matched before.
C12_NoMatchKeepsPool == [][C12_NoMatchKeepsPool_Step]_vars

\* a search has just failed on a pool an earlier search had narrowed
C12_Witness ==
  /\ pc \in ChoosePcs /\ msg = "No matches found"
  /\ queries # {} /\ items # origItems

(* ------------------------ claims on serialization ---------------------- *)
\* C13: deserialize(serialize(x)) equals x: the General with its users in
\* order (no users included), the PostInstall with its lists in order (empty
\* lists included), the Partitioning's device and root size (root 0
\* included), and the Partitioning's total and remaining size as well
\* whenever the disk size query answers what it answered before.
C13_RoundTrip ==
  pc = "restored" =>
    LET r == restored[1] IN
    /\ r.general = general[1]
    /\ r.post_install = post_install[1]
    /\ r.partitioning.device = partitioning[1].device
    /\ r.partitioning.root_partition_size = partitioning[1].root_partition_size
    /\ r.partitioning.total_disk_size = partitioning[1].total_disk_size =>
         r.partitioning = partitioning[1]

\* an Installer with two different users, a root size, packages and scripts
\* has been restored on a disk of another size
C13_Witness ==
  /\ pc = "restored"
  /\ Len(general[1].users) = 2 /\ general[1].users[1] # general[1].users[2]
  /\ PyNum(partitioning[1].root_partition_size) > 0
  /\ Len(post_install[1].packages) = 2 /\ Len(post_install[1].scripts) = 2
  /\ restored[1].partitioning.total_disk_size # partitioning[1].total_disk_size

(* ----------------------- claims on the installation -------------------- *)
\* one step of the program as C14 allows it
C14_SizingErrorIssuesNothing_Step ==
  /\ SizingRaised' => (cmds' = <<>> /\ failures' = {})
  /\ (SizingRaised' /\ ~SizingRaised) => (pc = "apply" /\ cmds = <<>>)
  /\ ~SizingRaised

\* C14: when apply() raises the sizing error no command has been issued
\* before it, and install() issues no step after it: the run ends there.
C14_SizingErrorIssuesNothing == [][C14_SizingErrorIssuesNothing_Step]_vars

\* the sizing error has been raised for what the wizard collected
C14_Witness ==
  /\ SizingRaised /\ Len(general) = 1 /\ RootOf > 0

\* a command of the try block download_and_run_scripts runs for a script
IsScriptCmd(c) == c.op \in {"curl -o", "chmod +x", "run"}

\* C15: a failure of any external tool during Installer.install() -- disk
\* query, partition table, partition creation, formatting, mounting,
\* pacstrap, pacman (the post-install package installation included),
\* bootloader setup -- aborts the installation at once: the failed command is
\* the last one issued and the run has ended in failure; only a failure
\* inside the handling of one post-install script is survived.
C15_FailureAborts ==
  \A i \in failures :
    \/ i = Len(cmds) /\ pc = "failed"
    \/ IsScriptCmd(cmds[i])

(* ---------------------- claims on the post-install -------------------- *)
\* the positions in cmds of the downloads, one per script attempted
Downloads == {i \in 1..Len(cmds) : cmds[i].op = "curl -o"}
\* the position of the k-th download, and of the last command of its script
DownloadAt(k) == CHOOSE i \in Downloads : Cardinality({j \in Downloads : j < i}) = k - 1
LastOf(k) ==
  IF k = Cardinality(Downloads) THEN Len(cmds) ELSE DownloadAt(k + 1) - 1
\* the attempts that met a failure, by their number
FailedAttempts == {k \in 1..Cardinality(Downloads) : LastOf(k) \in failures}
TryBlock == <<"curl -o", "chmod +x", "run">>

\* C16: download_and_run_scripts attempts every script exactly once, in
\* list order; the failure of a download, chmod or execution is caught and
\* reported, skips the remaining steps of that script only, and neither
\* keeps a later script from being attempted nor aborts the installation.
C16_EveryScriptAttempted ==
  LET scripts == post_install[1].scripts
      n == Cardinality(Downloads)
  IN /\ pc = "failed" =>
          (cmds[Len(cmds)].op = "mkdir" /\ Len(cmds) \in failures /\ n = 0)
     /\ pc = "done" =>
          /\ n = Len(scripts)
          /\ n > 0 => DownloadAt(1) = 3
          /\ \A k \in 1..n :
               LET from == DownloadAt(k)
                   len == LastOf(k) - from + 1
               IN /\ cmds[from].target = scripts[k]
                  /\ len \in 1..3
                  /\ \A j \in 1..len : cmds[from + j - 1].op = TryBlock[j]
                  /\ \A j \in 1..(len - 1) : from + j - 1 \notin failures
                  /\ len < 3 => LastOf(k) \in failures
          /\ Len(reported) = Cardinality(FailedAttempts)
          /\ \A k \in FailedAttempts :
               reported[Cardinality({j \in FailedAttempts : j <= k})] = scripts[k]

\* the first of two scripts failed at its chmod, the second ran to its end
C16_Witness ==
  /\ pc = "done" /\ Len(post_install[1].scripts) = 2
  /\ FailedAttempts = {1} /\ LastOf(1) = 4
  /\ Len(cmds) = 7 /\ cmds[7].op = "run"

(* ---------------------- claims on the disk operations ------------------ *)
\* the kind of a disk operation: 1 create, 2 format, 3 mount, 0 none of them
DiskKind(c) ==
  CASE c.op = "mkpart" -> 1
    [] c.op \in {"mkfs.fat", "mkswap", "mkfs.ext4"} -> 2
    [] c.op \in {"mount", "swapon"} -> 3
    [] OTHER -> 0
Creates == SelectSeq(cmds, LAMBDA c : DiskKind(c) = 1)
Formats == SelectSeq(cmds, LAMBDA c : DiskKind(c) = 2)
Mounts == SelectSeq(cmds, LAMBDA c : DiskKind(c) = 3)
\* the number k of the partition <device>pk a format or mount addresses
PartIndex(c) == DigitVal(c.target[Len(c.target)])
AddressesDevice(c) ==
  c.target = PartName(partitioning[1].device, PartIndex(c))
IsPrefix(s, t) == Len(s) <= Len(t) /\ s = SubSeq(t, 1, Len(s))
IndicesOf(ops) == [i \in 1..Len(ops) |-> PartIndex(ops[i])]
RoleOrder == <<1, 2, 3, 4>>
\* every create precedes every format, every format every mount
KindsInOrder ==
  \A i, j \in 1..Len(cmds) :
    (i < j /\ DiskKind(cmds[i]) > 0 /\ DiskKind(cmds[j]) > 0) =>
      DiskKind(cmds[i]) <= DiskKind(cmds[j])
\* creates: boot, swap, root, home by their place on the disk and their type
CreatesInRoleOrder ==
  /\ IsPrefix([i \in 1..Len(Creates) |-> Creates[i].arg],
              <<"fat32", "linux-swap", "ext4", "ext4">>)
  /\ \A i \in 1..(Len(Creates) - 1) : Creates[i].start < Creates[i + 1].start
FormatsInRoleOrder ==
  /\ IsPrefix(IndicesOf(Formats), RoleOrder)
  /\ IsPrefix([i \in 1..Len(Formats) |-> Formats[i].op],
              <<"mkfs.fat", "mkswap", "mkfs.ext4", "mkfs.ext4">>)
  /\ \A i \in 1..Len(Formats) : AddressesDevice(Formats[i])
\* where each partition is mounted; swap is switched on
MountPoint(k) ==
  CASE k = 1 -> "/mnt/boot" [] k = 2 -> "" [] k = 3 -> "/mnt" [] OTHER -> "/mnt/home"
MountsAddressRoles ==
  \A i \in 1..Len(Mounts) :
    /\ AddressesDevice(Mounts[i])
    /\ Mounts[i].arg = MountPoint(PartIndex(Mounts[i]))
    /\ (Mounts[i].op = "swapon") = (PartIndex(Mounts[i]) = 2)

\* C17: the disk operations of one installation are issued, for each of the
\* kinds create, format and mount, in the role order boot, swap, root, home,
\* addressing boot as p1, swap as p2, root as p3 and home as p4; every
\* create precedes every format and every format precedes every mount.
C17_RoleOrderForEveryKind ==
  partitioning # <<>> =>
    /\ KindsInOrder
    /\ CreatesInRoleOrder
    /\ FormatsInRoleOrder
    /\ MountsAddressRoles
    /\ \A i \in 1..(Len(Mounts) - 1) : PartIndex(Mounts[i]) < PartIndex(Mounts[i + 1])

\* C17 (amended): creates and formats are issued in the role order boot,
\* swap, root, home, boot on p1, swap on p2, root on p3, home on p4; the
\* mounts are issued root (p3 on /mnt) first, then home (p4 on /mnt/home)
\* if there is one, then boot (p1 on /mnt/boot), then swap (swapon p2);
\* every create precedes every format and every format every mount.
C17_MountsRootFirst ==
  partitioning # <<>> =>
    /\ KindsInOrder
    /\ CreatesInRoleOrder
    /\ FormatsInRoleOrder
    /\ MountsAddressRoles
    /\ IsPrefix(IndicesOf(Mounts),
                IF Len(Creates) = 4 THEN <<3, 4, 1, 2>> ELSE <<3, 1, 2>>)

\* all four partitions have been created, formatted and mounted
C17_Witness ==
  /\ pc = "pacstrap" /\ Len(Creates) = 4 /\ Len(Formats) = 4 /\ Len(Mounts) = 4

\* the operations on <device>p4
HomeFormats == SelectSeq(Formats, LAMBDA c : PartIndex(c) = 4)
HomeMounts == SelectSeq(Mounts, LAMBDA c : PartIndex(c) = 4)

\* C18: in every layout that apply() materializes a fourth (home) partition
\* is created iff the requested root size is > 0; when created, its size is
\* strictly positive, it is formatted as ext4 on p4 by create_partitions and
\* later mounted by mount(); a home partition is never formatted or mounted
\* without having been created.
C18_HomeIffRoot ==
  /\ Materialized =>
       /\ Len(Creates) = 4 <=> RootOf > 0
       /\ Len(Creates) \in {3, 4}
       /\ Len(Creates) = 4 =>
            /\ Creates[4].size > 0
            /\ Len(HomeFormats) = 1
            /\ HomeFormats[1].op = "mkfs.ext4"
            /\ HomeFormats[1].target = PartName(partitioning[1].device, 4)
  /\ pc \in {"pacstrap", "post_install", "done"} =>
       /\ Len(HomeMounts) = (IF Len(Creates) = 4 THEN 1 ELSE 0)
       /\ Len(Creates) = 4 => HomeMounts[1].arg = "/mnt/home"
  /\ partitioning # <<>> =>
       (Len(HomeFormats) + Len(HomeMounts) > 0 => Len(Creates) = 4)

\* a disk of 40 GB with a root of 10 GB: home created, formatted and mounted
C18_Witness ==
  /\ pc = "pacstrap" /\ TotalOf = 40960 /\ RootOf = 10240
  /\ Len(Creates) = 4 /\ Len(HomeFormats) = 1 /\ Len(HomeMounts) = 1

\* C19: for every total disk size > 0 and every root size >= 0 apply()
\* issues no create_partition of size zero or less and none that ends
\* beyond the total disk size; a disk too small for boot, swap and a
\* positive root (total <= 1536 with root = 0) is rejected with an error
\* before any partition is created.
C19_PartitionsFitTheDisk ==
  partitioning # <<>> =>
    /\ \A i \in 1..Len(Creates) :
         /\ Creates[i].size > 0
         /\ Creates[i].start + Creates[i].size <= TotalOf
    /\ (TotalOf <= BOOT_SIZE + SWAP_SIZE /\ RootOf = 0) =>
         (Creates = <<>> /\ pc \in {"apply", "failed"})

\* the useradd commands issued so far, one per user, in order
UserAdds == SelectSeq(cmds, LAMBDA c : c.op \in {"useradd -m", "useradd -m -G wheel"})
\* the command adds the user to the group wheel
IntoWheel(c) == c.op = "useradd -m -G wheel"

\* C20: a user is added to the group wheel, which edit_sudoers grants full
\* sudo, iff the sudo flag chosen for that user in the wizard is true: a
\* user reviewed as 'User' never becomes a member of wheel.
C20_WheelIffSudo ==
  \A k \in 1..Len(UserAdds) :
    /\ UserAdds[k].target = general[1].users[k].username.s
    /\ IntoWheel(UserAdds[k]) <=> general[1].users[k].sudo

====
